---------------------------- MODULE Spec2Model ----------------------------
(***************************************************************************)
(* Model of the command execution runner of py-gpt                         *)
(* (pygpt_net/plugin/cmd_code_interpreter/runner.py, class Runner).        *)
(*                                                                         *)
(* Text is a sequence of characters, a path is a sequence of path tokens   *)
(* (separators "/" and names), captured process output is a sequence of    *)
(* byte values.  The filesystem is a function from the absolute paths of   *)
(* the existing files to their text content.                               *)
(***************************************************************************)
EXTENDS Integers, Sequences, FiniteSets, TLC

VARIABLES
    fs,              \* filesystem: absolute path -> content of the file
    cwd,             \* working directory of the application process
    sandbox,         \* plugin option 'sandbox_docker'
    python_cmd_tpl,  \* plugin option 'python_cmd_tpl'
    signals,         \* TRUE iff Runner.signals is not None (a listener is attached)
    last,            \* what the last call to a Runner method did and returned
    submitted,       \* history: non-empty texts handed to append_input, in order
    clobbered,       \* history: the transcript file has been opened with mode 'w'
    calls            \* number of execution calls made so far

\* The chat controller (pygpt_net/controller/chat/common.py, class Common)
\* and the objects of the window it writes to.
VARIABLES
    locked,              \* window.controller.chat.input.locked
    generating,          \* window.controller.chat.input.generating
    force_stop,          \* window.controller.chat.input.force_stop
    threads_force_stop,  \* window.controller.assistant.threads.force_stop
    send_btn_enabled,    \* window.ui.nodes['input.send_btn'] is enabled
    stop_btn_visible,    \* window.ui.nodes['input.stop_btn'] is visible
    dispatched,          \* the events the last call handed to window.core.dispatcher.dispatch
    gpt_stopped,         \* window.core.gpt.stop() has been called
    status,              \* the text last handed to window.set_status
    chat_last            \* the last call to a Common method, and the state it found

runner_vars == <<fs, cwd, sandbox, python_cmd_tpl, signals, last, submitted, clobbered, calls>>

chat_vars == <<locked, generating, force_stop, threads_force_stop, send_btn_enabled,
               stop_btn_visible, dispatched, gpt_stopped, status, chat_last>>

vars == <<runner_vars, chat_vars>>

\* Bound on the number of execution calls in a behaviour.
MaxCalls == 2

--------------------------------------------------------------------------
\* Strings

NL == "\n"
SEP == "/"
SLOT == "{filename}"

\* Runner.__init__
file_current == <<"_interpreter.current.py">>
file_input == <<"_interpreter.input.py">>

\* config.get_user_dir('data'), the directory get_volumes binds to /data
user_data_dir == <<SEP, "userdata">>
\* some other directory the application may have been started from
other_dir == <<SEP, "app">>

\* the sentinel of handle_result
NO_RESULT == <<"No result (STDOUT/STDERR empty)">>
FILE_NOT_FOUND == <<"File not found">>

\* Inputs
Texts == {<<>>, <<"a">>}
CodePaths == {<<"a.py">>, file_input}
FilePaths == {<<"a.py">>, user_data_dir \o <<SEP, "a.py">>}
AnyPaths == {<<"a.py">>, file_input, <<SEP, "data", SEP, "a.py">>, user_data_dir \o <<SEP, "a.py">>}
Commands == {<<"ls">>, <<"cat", " ", SLOT>>}
Templates == {<<"python", " ", SLOT>>, <<"python3", " ", "-u", " ", SLOT, " ", "-q">>}

\* Captured output of a child process / of a container, as bytes.
\* 120 = 'x', 101 = 'e', 255 is not valid UTF-8.
HostStreams == { <<<<>>, <<>>>>, <<<<120>>, <<>>>>, <<<<>>, <<101>>>>, <<<<120>>, <<101>>>>,
                 <<<<255>>, <<101>>>>, <<<<120>>, <<255>>>> }
DockerResponses == { <<>>, <<120>>, <<101, 120>>, <<255>> }

--------------------------------------------------------------------------
\* bytes.decode("utf-8"), on the single-byte part of UTF-8

Utf8Valid(b) == \A i \in 1..Len(b) : b[i] < 128

Chr(n) == CASE n = 101 -> "e" [] n = 120 -> "x" [] OTHER -> "?"

decode(b) == [i \in 1..Len(b) |-> Chr(b[i])]

--------------------------------------------------------------------------
\* Paths and files

is_absolute_path(path) == path # <<>> /\ path[1] = SEP

os_path_join(a, p) ==
    IF is_absolute_path(p) THEN p
    ELSE IF a = <<>> \/ a[Len(a)] = SEP THEN a \o p
    ELSE a \o <<SEP>> \o p

is_sandbox == sandbox

\* prepare_path that joins whatever the sandbox option says
prepare_path_join(path) ==
    IF is_absolute_path(path) THEN path ELSE os_path_join(user_data_dir, path)

prepare_path(path) ==
    IF is_absolute_path(path) THEN path
    ELSE IF ~is_sandbox THEN os_path_join(user_data_dir, path)
    ELSE path

\* The file a path names for the operating system: a relative path is
\* taken from the working directory of the process.
Abs(path) == os_path_join(cwd, path)

isfile(f, path) == Abs(path) \in DOMAIN f

\* open(path, 'r').read()
FileRead(f, path) == f[Abs(path)]

\* open(path, 'a').write(data)
FileAppend(f, path, data) ==
    [q \in DOMAIN f \cup {Abs(path)} |->
        IF q = Abs(path)
        THEN (IF q \in DOMAIN f THEN f[q] ELSE <<>>) \o data
        ELSE f[q]]

\* the snippet file opened with mode 'a' instead of 'w'
FileWrite_a(f, path, data) == FileAppend(f, path, data)

\* open(path, 'w').write(data)
FileWrite(f, path, data) ==
    [q \in DOMAIN f \cup {Abs(path)} |-> IF q = Abs(path) THEN data ELSE f[q]]

\* the file name put after the template instead of into its slot
Format_tail(tpl, filename) == SelectSeq(tpl, LAMBDA t : t # SLOT) \o filename

\* str.format(filename=...) on a template: every {filename} slot is replaced
RECURSIVE Format(_, _)
Format(tpl, filename) ==
    IF tpl = <<>> THEN <<>>
    ELSE (IF Head(tpl) = SLOT THEN filename ELSE <<Head(tpl)>>) \o Format(Tail(tpl), filename)


--------------------------------------------------------------------------
\* Notification channels (the emit calls of Runner.signals)

Emit(ch, data, type) ==
    IF signals THEN <<[ch |-> ch, data |-> data, type |-> type]>> ELSE <<>>

send_interpreter_input(data) == Emit("output", data, "stdin")

send_interpreter_output(data, type) == Emit("output", data, type)

log(msg, sb) ==
    Emit("log", (IF sb THEN <<"[DOCKER]">> ELSE <<>>) \o <<" ">> \o msg, "")

--------------------------------------------------------------------------
\* Result handling

NoFault == "none"

\* handle_result with the streams looked at in the other order
handle_result_swapped(stdout, stderr) ==
    IF (stdout # <<>> /\ ~Utf8Valid(stdout)) \/ (stderr # <<>> /\ ~Utf8Valid(stderr))
    THEN [fault |-> "UnicodeDecodeError", result |-> <<>>, emitted |-> <<>>]
    ELSE [fault |-> NoFault,
          result |-> IF stdout # <<>> THEN decode(stdout)
                     ELSE IF stderr # <<>> THEN decode(stderr)
                     ELSE <<"No result">>,
          emitted |-> <<>>]

\* handle_result that answers a decoding failure with the sentinel
handle_result_quiet(stdout, stderr) ==
    IF (stdout # <<>> /\ ~Utf8Valid(stdout)) \/ (stderr # <<>> /\ ~Utf8Valid(stderr))
    THEN [fault |-> NoFault, result |-> NO_RESULT, emitted |-> log(NO_RESULT, FALSE)]
    ELSE [fault |-> NoFault,
          result |-> IF stderr # <<>> THEN decode(stderr)
                     ELSE IF stdout # <<>> THEN decode(stdout)
                     ELSE NO_RESULT,
          emitted |-> (IF stdout # <<>> THEN send_interpreter_output(decode(stdout), "stdout")
                       ELSE <<>>)
                      \o (IF stderr # <<>> THEN send_interpreter_output(decode(stderr), "stderr")
                          ELSE <<>>)]

\* handle_result with "elif stderr": stderr is passed over when stdout was there
handle_result_elif(stdout, stderr) ==
    IF (stdout # <<>> /\ ~Utf8Valid(stdout)) \/ (stdout = <<>> /\ ~Utf8Valid(stderr))
    THEN [fault |-> "UnicodeDecodeError", result |-> <<>>, emitted |-> <<>>]
    ELSE [fault |-> NoFault,
          result |-> IF stdout # <<>> THEN decode(stdout)
                     ELSE IF stderr # <<>> THEN decode(stderr)
                     ELSE NO_RESULT,
          emitted |-> IF stdout # <<>> THEN send_interpreter_output(decode(stdout), "stdout")
                      ELSE IF stderr # <<>> THEN send_interpreter_output(decode(stderr), "stderr")
                      ELSE log(NO_RESULT, FALSE)]

handle_result(stdout, stderr) ==
    IF stdout # <<>> /\ ~Utf8Valid(stdout)
    THEN [fault |-> "UnicodeDecodeError", result |-> <<>>, emitted |-> <<>>]
    ELSE
      LET e1 == IF stdout # <<>>
                THEN send_interpreter_output(decode(stdout), "stdout")
                     \o log(<<"STDOUT: ">> \o decode(stdout), FALSE)
                ELSE <<>>
      IN IF stderr # <<>> /\ ~Utf8Valid(stderr)
         THEN [fault |-> "UnicodeDecodeError", result |-> <<>>, emitted |-> e1]
         ELSE
           LET e2 == IF stderr # <<>>
                     THEN send_interpreter_output(decode(stderr), "stderr")
                          \o log(<<"STDERR: ">> \o decode(stderr), FALSE)
                     ELSE <<>>
               none == stdout = <<>> /\ stderr = <<>>
               result == IF stderr # <<>> THEN decode(stderr)
                         ELSE IF stdout # <<>> THEN decode(stdout)
                         ELSE NO_RESULT
               e3 == IF none THEN log(result, FALSE) ELSE <<>>
           IN [fault |-> NoFault, result |-> result, emitted |-> e1 \o e2 \o e3]

\* handle_result_docker that swallows a decoding failure
handle_result_docker_quiet(response) ==
    IF ~Utf8Valid(response)
    THEN [fault |-> NoFault, result |-> NO_RESULT, emitted |-> <<>>]
    ELSE [fault |-> NoFault,
          result |-> decode(response),
          emitted |-> send_interpreter_output(decode(response), "stdout")
                      \o log(<<"Result: ">> \o decode(response), TRUE)]

\* handle_result_docker that emits without asking whether signals is None
handle_result_docker_unguarded(response) ==
    IF ~Utf8Valid(response)
    THEN [fault |-> "UnicodeDecodeError", result |-> <<>>, emitted |-> <<>>]
    ELSE IF ~signals
    THEN [fault |-> "AttributeError", result |-> <<>>, emitted |-> <<>>]
    ELSE [fault |-> NoFault,
          result |-> decode(response),
          emitted |-> send_interpreter_output(decode(response), "stdout")
                      \o log(<<"Result: ">> \o decode(response), TRUE)]


\* handle_result_docker treating the response as handle_result treats stdout
handle_result_docker_nonempty(response) ==
    IF ~Utf8Valid(response)
    THEN [fault |-> "UnicodeDecodeError", result |-> <<>>, emitted |-> <<>>]
    ELSE IF response = <<>>
    THEN [fault |-> NoFault, result |-> NO_RESULT, emitted |-> log(NO_RESULT, TRUE)]
    ELSE [fault |-> NoFault,
          result |-> decode(response),
          emitted |-> send_interpreter_output(decode(response), "stdout")
                      \o log(<<"Result: ">> \o decode(response), TRUE)]

handle_result_docker(response) ==
    IF ~Utf8Valid(response)
    THEN [fault |-> "UnicodeDecodeError", result |-> <<>>, emitted |-> <<>>]
    ELSE [fault |-> NoFault,
          result |-> decode(response),
          emitted |-> send_interpreter_output(decode(response), "stdout")
                      \o log(<<"Result: ">> \o decode(response), TRUE)]

get_volumes == [host |-> user_data_dir, bind |-> <<SEP, "data">>, mode |-> "rw"]

\* The arguments run_docker hands to client.containers.run
run_docker(cmd) == [cmd |-> cmd, volumes |-> get_volumes, working_dir |-> <<SEP, "data">>]

\* The transcript file as append_input opens it
append_input_path == prepare_path(file_input)

\* append_input with the separator written also to an empty transcript
append_input_nl(f, data) ==
    LET path == append_input_path
    IN IF data # <<>> THEN FileAppend(f, path, <<NL>> \o data)
       ELSE FileAppend(f, path, <<>>)

\* append_input that writes the separator also when the data is empty
append_input_always(f, data) ==
    LET path == append_input_path
        content == IF isfile(f, path) THEN FileRead(f, path) ELSE <<>>
        nl == IF content # <<>> THEN <<NL>> ELSE <<>>
    IN FileAppend(f, path, nl \o data)

append_input(f, data) ==
    LET path == append_input_path
        content == IF isfile(f, path) THEN FileRead(f, path) ELSE <<>>
        nl == IF content # <<>> THEN <<NL>> ELSE <<>>
    IN IF data # <<>> THEN FileAppend(f, path, nl \o data)
       ELSE FileAppend(f, path, <<>>)

--------------------------------------------------------------------------
\* Outcome of one call of a Runner method.
\*   fs       the filesystem the call leaves
\*   fault    NoFault, or the exception that left the method
\*   ret      <<>>, or <<d>> for the dict d the method returned
\*   emitted  the signals emitted, in order
\*   popen    the commands handed to subprocess.Popen (also when Popen raised)
\*   docker   the container runs requested of the docker client (also when it raised)
\*   written  the files opened with mode 'w'
\*   appended the files opened with mode 'a'
\*   data     the texts handed to append_input
\*   ext      what the operating system or the container runtime answered

NoExt == [spawn |-> "none", run |-> "none"]

Outcome(f, fault, ret, emitted, popen, docker, written, appended, data, ext) ==
    [fs |-> f, fault |-> fault, ret |-> ret, emitted |-> emitted, popen |-> popen,
     docker |-> docker, written |-> written, appended |-> appended, data |-> data,
     ext |-> ext]

Envelope(request, result) == [request |-> request, result |-> result, context |-> result]

\* RunHost that spawns the command a second time when the spawn failed
RunHost_retry(f, request, cmd, proc, emitted, written, appended, data) ==
    IF proc.spawn # "ok"
    THEN Outcome(f, "OSError", <<>>, emitted, <<cmd, cmd>>, <<>>, written, appended, data, proc)
    ELSE LET h == handle_result(proc.stdout, proc.stderr)
         IN Outcome(f, h.fault,
                    IF h.fault = NoFault THEN <<Envelope(request, h.result)>> ELSE <<>>,
                    emitted \o h.emitted, <<cmd>>, <<>>, written, appended, data, proc)


\* subprocess.Popen(cmd, shell=True, ...).communicate() and handle_result;
\* proc is what the operating system does with the command.
\* RunHost that puts the files back as they were when the spawn failed
RunHost_rollback(f, request, cmd, proc, emitted, written, appended, data) ==
    IF proc.spawn # "ok"
    THEN Outcome(fs, "OSError", <<>>, emitted, <<cmd>>, <<>>, written, appended, data, proc)
    ELSE LET h == handle_result(proc.stdout, proc.stderr)
         IN Outcome(f, h.fault,
                    IF h.fault = NoFault THEN <<Envelope(request, h.result)>> ELSE <<>>,
                    emitted \o h.emitted, <<cmd>>, <<>>, written, appended, data, proc)

RunHost(f, request, cmd, proc, emitted, written, appended, data) ==
    IF proc.spawn # "ok"
    THEN Outcome(f, "OSError", <<>>, emitted, <<cmd>>, <<>>, written, appended, data, proc)
    ELSE LET h == handle_result(proc.stdout, proc.stderr)
         IN Outcome(f, h.fault,
                    IF h.fault = NoFault THEN <<Envelope(request, h.result)>> ELSE <<>>,
                    emitted \o h.emitted, <<cmd>>, <<>>, written, appended, data, proc)

\* run_docker(cmd) and handle_result_docker; cont is what the container
\* runtime does with the run.
RunDocker(f, request, cmd, cont, emitted, written, appended, data) ==
    IF cont.run # "ok"
    THEN Outcome(f, "DockerException", <<>>, emitted, <<>>, <<run_docker(cmd)>>, written, appended, data, cont)
    ELSE LET h == handle_result_docker(cont.response)
         IN Outcome(f, h.fault,
                    IF h.fault = NoFault THEN <<Envelope(request, h.result)>> ELSE <<>>,
                    emitted \o h.emitted, <<>>, <<run_docker(cmd)>>, written, appended, data, cont)


--------------------------------------------------------------------------
\* The Runner methods.  item is the command item (item.params holds 'code',
\* 'path' or 'command'), request the request dict to echo, proc / cont what
\* the operating system / the container runtime does with the command.
\* For a method m, m_outcome is what a call of m does and returns in the
\* present state, and the action m is the step in which the call is made.

Finish(op, item, request, all, o) ==
    /\ calls < MaxCalls
    /\ last.op = "none"
    /\ fs' = o.fs
    /\ last' = [op |-> op, item |-> item, request |-> request, all |-> all, pre |-> fs,
                fault |-> o.fault, ret |-> o.ret, emitted |-> o.emitted,
                popen |-> o.popen, docker |-> o.docker,
                written |-> o.written, appended |-> o.appended, data |-> o.data,
                ext |-> o.ext]
    /\ submitted' = submitted \o SelectSeq(o.data, LAMBDA d : d # <<>>)
    /\ clobbered' = (clobbered \/ Abs(append_input_path) \in o.written)
    /\ calls' = calls + 1
    /\ UNCHANGED <<cwd, sandbox, python_cmd_tpl, signals, chat_vars>>

code_execute_file_sandbox_outcome(item, request, cont) ==
    LET path == item.params.path
        e0 == log(<<"Executing Python file: ">> \o path, TRUE)
        cmd == Format(python_cmd_tpl, path)
    IN IF ~isfile(fs, path)
       THEN Outcome(fs, "FileNotFoundError", <<>>, e0, <<>>, <<>>, {}, {}, <<>>, NoExt)
       ELSE LET code == FileRead(fs, path)
                f1 == append_input(fs, code)
                e1 == e0 \o send_interpreter_input(code)
                         \o log(<<"Running command: ">> \o cmd, TRUE)
            IN RunDocker(f1, request, cmd, cont, e1, {}, {Abs(append_input_path)}, <<code>>)

code_execute_file_sandbox(item, request, cont) ==
    Finish("code_execute_file_sandbox", item, request, FALSE,
           code_execute_file_sandbox_outcome(item, request, cont))

code_execute_sandbox_outcome(item, request, all, cont) ==
    LET data == item.params.code
        path == IF ~all
                THEN (IF "path" \in DOMAIN item.params THEN item.params.path ELSE file_current)
                ELSE prepare_path(file_input)
        e0 == IF ~all THEN log(<<"Saving Python file: ">> \o path, TRUE) ELSE <<>>
        f1 == IF ~all THEN FileWrite(fs, path, data) ELSE fs
        written == IF ~all THEN {Abs(path)} ELSE {}
        f2 == append_input(f1, data)
        cmd == Format(python_cmd_tpl, path)
        e1 == e0 \o send_interpreter_input(data)
                 \o log(<<"Executing Python code: ">> \o item.params.code, TRUE)
                 \o log(<<"Running command: ">> \o cmd, TRUE)
    IN RunDocker(f2, request, cmd, cont, e1, written, {Abs(append_input_path)}, <<data>>)

code_execute_sandbox(item, request, all, cont) ==
    Finish("code_execute_sandbox", item, request, all,
           code_execute_sandbox_outcome(item, request, all, cont))

sys_exec_sandbox_outcome(item, request, cont) ==
    LET e0 == log(<<"Executing system command: ">> \o item.params.command, TRUE)
              \o log(<<"Running command: ">> \o item.params.command, TRUE)
    IN RunDocker(fs, request, item.params.command, cont, e0, {}, {}, <<>>)

sys_exec_sandbox(item, request, cont) ==
    Finish("sys_exec_sandbox", item, request, FALSE,
           sys_exec_sandbox_outcome(item, request, cont))

\* the missing file left to open(), which raises
file_not_found_raise(request, emitted) ==
    Outcome(fs, "FileNotFoundError", <<>>, emitted, <<>>, <<>>, {}, {}, <<>>, NoExt)

\* the soft failure of code_execute_file_host: the file does not exist
file_not_found(request, emitted) ==
    Outcome(fs, NoFault, <<[request |-> request, result |-> FILE_NOT_FOUND]>>,
            emitted, <<>>, <<>>, {}, {}, <<>>, NoExt)

code_execute_file_host_outcome(item, request, proc) ==
    LET e0 == log(<<"Executing Python file: ">> \o item.params.path, FALSE)
        path == prepare_path(item.params.path)
    IN IF ~isfile(fs, path)
       THEN file_not_found(request, e0)
       ELSE LET code == FileRead(fs, path)
                f1 == append_input(fs, code)
                cmd == Format(python_cmd_tpl, path)
                e1 == e0 \o send_interpreter_input(code)
                         \o log(<<"Running command: ">> \o cmd, FALSE)
            IN RunHost(f1, request, cmd, proc, e1, {}, {Abs(append_input_path)}, <<code>>)

code_execute_file_host(item, request, proc) ==
    Finish("code_execute_file_host", item, request, FALSE,
           code_execute_file_host_outcome(item, request, proc))

\* code_execute_host that saves the snippet file also when all is set
code_execute_host_save(item, request, all, proc) ==
    LET data == item.params.code
        path0 == IF "path" \in DOMAIN item.params THEN item.params.path ELSE file_current
        path == IF ~all THEN prepare_path(path0) ELSE prepare_path(file_input)
        e0 == log(<<"Saving Python file: ">> \o path0, FALSE)
        f1 == FileWrite(fs, prepare_path(path0), data)
        written == {Abs(prepare_path(path0))}
        f2 == append_input(f1, data)
        cmd == Format(python_cmd_tpl, path)
        e1 == e0 \o send_interpreter_input(data)
                 \o log(<<"Running command: ">> \o cmd, FALSE)
    IN RunHost(f2, request, cmd, proc, e1, written, {Abs(append_input_path)}, <<data>>)

code_execute_host_outcome(item, request, all, proc) ==
    LET data == item.params.code
        path0 == IF "path" \in DOMAIN item.params THEN item.params.path ELSE file_current
        path == IF ~all THEN prepare_path(path0) ELSE prepare_path(file_input)
        e0 == IF ~all THEN log(<<"Saving Python file: ">> \o path0, FALSE) ELSE <<>>
        f1 == IF ~all THEN FileWrite(fs, path, data) ELSE fs
        written == IF ~all THEN {Abs(path)} ELSE {}
        f2 == append_input(f1, data)
        cmd == Format(python_cmd_tpl, path)
        e1 == e0 \o send_interpreter_input(data)
                 \o log(<<"Running command: ">> \o cmd, FALSE)
    IN RunHost(f2, request, cmd, proc, e1, written, {Abs(append_input_path)}, <<data>>)

code_execute_host(item, request, all, proc) ==
    Finish("code_execute_host", item, request, all,
           code_execute_host_outcome(item, request, all, proc))

\* sys_exec_host that puts the command through the template
sys_exec_host_tpl(item, request, proc) ==
    LET e0 == log(<<"Executing system command: ">> \o item.params.command, FALSE)
        cmd == Format(python_cmd_tpl, item.params.command)
    IN RunHost(fs, request, cmd, proc, e0, {}, {}, <<>>)

sys_exec_host_outcome(item, request, proc) ==
    LET e0 == log(<<"Executing system command: ">> \o item.params.command, FALSE)
              \o log(<<"Running command: ">> \o item.params.command, FALSE)
    IN RunHost(fs, request, item.params.command, proc, e0, {}, {}, <<>>)

sys_exec_host(item, request, proc) ==
    Finish("sys_exec_host", item, request, FALSE,
           sys_exec_host_outcome(item, request, proc))

\* A call of prepare_path on its own; it changes nothing but what was last called.
prepare_path_call(path) ==
    /\ last.op = "none"
    /\ last' = [op |-> "prepare_path", item |-> [params |-> [path |-> path]],
                request |-> [cmd |-> "prepare_path"], all |-> FALSE, pre |-> fs,
                fault |-> NoFault, ret |-> <<prepare_path(path)>>, emitted |-> <<>>,
                popen |-> <<>>, docker |-> <<>>, written |-> {}, appended |-> {}, data |-> <<>>,
                ext |-> NoExt]
    /\ UNCHANGED <<fs, cwd, sandbox, python_cmd_tpl, signals, submitted, clobbered, calls, chat_vars>>

--------------------------------------------------------------------------
\* The environment of the runner: the requests the plugin hands over and
\* what the operating system and the container runtime answer.

Request(cmd) == [cmd |-> cmd]

CodeItems ==
    {[params |-> [code |-> t]] : t \in Texts}
    \cup {[params |-> [code |-> t, path |-> p]] : t \in Texts, p \in CodePaths}

FileItems == {[params |-> [path |-> p]] : p \in FilePaths}

CommandItems == {[params |-> [command |-> c]] : c \in Commands}

Procs ==
    {[spawn |-> "fault", stdout |-> <<>>, stderr |-> <<>>]}
    \cup {[spawn |-> "ok", stdout |-> s[1], stderr |-> s[2]] : s \in HostStreams}

Conts ==
    {[run |-> "fault", response |-> <<>>]}
    \cup {[run |-> "ok", response |-> r] : r \in DockerResponses}

\* The plugin selects the execution path by the sandbox option.
onHost == ~is_sandbox

\* The files of the user-data directory when the runner is constructed: the
\* transcript absent, empty or holding text p; a.py absent or holding p.
InitFiles ==
    LET tr == user_data_dir \o <<SEP>> \o file_input
        py == user_data_dir \o <<SEP, "a.py">>
    IN { <<>>,
         [q \in {tr} |-> <<>>],
         [q \in {py} |-> <<"p">>],
         [q \in {tr, py} |-> <<"p">>] }

NoCall ==
    [op |-> "none", item |-> [params |-> <<>>], request |-> Request("none"),
     all |-> FALSE, pre |-> <<>>, fault |-> NoFault, ret |-> <<>>, emitted |-> <<>>,
     popen |-> <<>>, docker |-> <<>>, written |-> {}, appended |-> {}, data |-> <<>>,
                ext |-> NoExt]

\* The calls are synchronous: the caller has the outcome of a call in hand
\* before it makes the next one.
Return ==
    /\ last.op # "none"
    /\ last' = NoCall
    /\ UNCHANGED <<fs, cwd, sandbox, python_cmd_tpl, signals, submitted, clobbered, calls, chat_vars>>

\* The plugin attaches its worker's signals to the runner, or takes them
\* away, between two calls.
attach_signals(s) ==
    /\ calls < MaxCalls
    /\ last.op = "none"
    /\ s # signals
    /\ signals' = s
    /\ UNCHANGED <<fs, cwd, sandbox, python_cmd_tpl, last, submitted, clobbered, calls, chat_vars>>

\* the last call to a Common method: none yet
NoChatCall ==
    [op |-> "none", locked |-> FALSE, generating |-> FALSE,
     send_btn_enabled |-> TRUE, stop_btn_visible |-> FALSE]

\* The chat controller at rest; the runner does not write to it.
ChatAtRest ==
    /\ locked = FALSE /\ generating = FALSE
    /\ force_stop = FALSE /\ threads_force_stop = FALSE
    /\ send_btn_enabled = TRUE /\ stop_btn_visible = FALSE
    /\ dispatched = <<>> /\ gpt_stopped = FALSE
    /\ status = <<>>
    /\ chat_last = NoChatCall

Init ==
    /\ ChatAtRest
    /\ sandbox \in BOOLEAN
    \* on the host every path the runner opens is absolute (prepare_path), so
    \* the working directory plays a part in container mode only
    /\ cwd \in IF sandbox THEN {user_data_dir, other_dir} ELSE {other_dir}
    /\ python_cmd_tpl \in Templates
    /\ signals \in BOOLEAN
    /\ fs \in InitFiles
    /\ last = NoCall
    /\ submitted = IF isfile(fs, append_input_path) /\ FileRead(fs, append_input_path) # <<>>
                   THEN <<FileRead(fs, append_input_path)>> ELSE <<>>
    /\ clobbered = FALSE
    /\ calls = 0

Next ==
    \/ \E item \in CodeItems, all \in BOOLEAN, proc \in Procs :
         onHost /\ code_execute_host(item, Request("code_execute"), all, proc)
    \/ \E item \in FileItems, proc \in Procs :
         onHost /\ code_execute_file_host(item, Request("code_execute_file"), proc)
    \/ \E item \in CommandItems, proc \in Procs :
         onHost /\ sys_exec_host(item, Request("sys_exec"), proc)
    \/ \E item \in CodeItems, all \in BOOLEAN, cont \in Conts :
         ~onHost /\ code_execute_sandbox(item, Request("code_execute"), all, cont)
    \/ \E item \in FileItems, cont \in Conts :
         ~onHost /\ code_execute_file_sandbox(item, Request("code_execute_file"), cont)
    \/ \E item \in CommandItems, cont \in Conts :
         ~onHost /\ sys_exec_sandbox(item, Request("sys_exec"), cont)
    \/ \E path \in AnyPaths : prepare_path_call(path)
    \/ \E s \in BOOLEAN : attach_signals(s)
    \/ Return

Spec == Init /\ [][Next]_vars


--------------------------------------------------------------------------
\* Vocabulary of the properties

IsCall == last.op \notin {"none", "prepare_path"}
IsExecuteCode == last.op \in {"code_execute_host", "code_execute_sandbox"}
IsExecuteCodeFile == last.op \in {"code_execute_file_host", "code_execute_file_sandbox"}
IsShell == last.op \in {"sys_exec_host", "sys_exec_sandbox"}
IsHostCall == last.op \in {"code_execute_host", "code_execute_file_host", "sys_exec_host"}

\* the transcript file, as the operating system names it
TranscriptFile == IF sandbox THEN cwd \o <<"/">> \o <<"_interpreter.input.py">>
                  ELSE <<"/", "userdata", "/", "_interpreter.input.py">>

Content(f, q) == IF q \in DOMAIN f THEN f[q] ELSE <<>>

JoinNL(p, t) == IF p = <<>> THEN t ELSE p \o <<"\n">> \o t

RECURSIVE JoinAll(_)
JoinAll(ts) == IF ts = <<>> THEN <<>> ELSE JoinNL(JoinAll(SubSeq(ts, 1, Len(ts) - 1)), ts[Len(ts)])

\* the file a path of a request names: a relative path lies in the user-data
\* directory on the host and in the working directory in container mode
Located(p) == IF p[1] = "/" THEN p
              ELSE IF sandbox THEN cwd \o <<"/">> \o p
              ELSE <<"/", "userdata", "/">> \o p

\* the file executeCode writes when runAll is false
SnippetPath == IF "path" \in DOMAIN last.item.params THEN last.item.params.path
               ELSE <<"_interpreter.current.py">>

Outputs(kind) == SelectSeq(last.emitted, LAMBDA e : e.ch = "output" /\ e.type = kind)

--------------------------------------------------------------------------
\* C1 as stated: after executeCode with a non-empty sourceText the transcript
\* is the prior content, a newline when that was non-empty, and sourceText;
\* hence the transcript is the newline-join of all submitted texts in order.
C1_Original ==
    (IsExecuteCode /\ last.item.params.code # <<>> /\ last.fault = "none")
       => /\ Content(fs, TranscriptFile)
               = JoinNL(Content(last.pre, TranscriptFile), last.item.params.code)
          /\ Content(fs, TranscriptFile) = JoinAll(submitted)

\* C1 amended: the statement of C1 holds of every executeCode call that did
\* not write its snippet onto the transcript file itself (runAll true, or the
\* written file is another file); a call that did leaves the transcript
\* holding sourceText, a newline and sourceText.  As long as no call wrote a
\* snippet onto the transcript, the transcript is the newline-join of its
\* prior content and all submitted non-empty texts in submission order.
C1_TranscriptJoin ==
    /\ (IsExecuteCode /\ last.item.params.code # <<>>)
          => Content(fs, TranscriptFile)
               = IF ~last.all /\ Located(SnippetPath) = TranscriptFile
                 THEN last.item.params.code \o <<"\n">> \o last.item.params.code
                 ELSE JoinNL(Content(last.pre, TranscriptFile), last.item.params.code)
    /\ ~clobbered => Content(fs, TranscriptFile) = JoinAll(submitted)

\* C1 witness: a second executeCode call on a transcript that already held
\* text, in container mode, not written onto the transcript.
C1_Witness ==
    /\ IsExecuteCode /\ last.item.params.code # <<>> /\ ~clobbered
    /\ Content(last.pre, TranscriptFile) # <<>>
    /\ Len(submitted) = 3 /\ sandbox
    /\ Content(fs, TranscriptFile) = <<"p", "\n", "a", "\n", "a">>

\* C1 witness of the empty case: no newline is put before the first text.
C1_WitnessEmpty ==
    /\ IsExecuteCode /\ last.item.params.code # <<>>
    /\ TranscriptFile \notin DOMAIN last.pre
    /\ Content(fs, TranscriptFile) = <<"a">>

--------------------------------------------------------------------------
\* C2 as stated: after executeCode on the host with runAll false the written
\* file (explicitPath if supplied, else _interpreter.current.py) holds
\* exactly the text, whatever it held before.
C2_Original ==
    (last.op = "code_execute_host" /\ ~last.all /\ last.fault = "none")
       => /\ Located(SnippetPath) \in DOMAIN fs
          /\ fs[Located(SnippetPath)] = last.item.params.code

\* C2 amended: the written file holds exactly the text, whatever it held
\* before, unless the written file is the transcript file itself
\* (explicitPath names _interpreter.input.py) and the text is non-empty: the
\* transcript append follows the write, and the file then holds the text, a
\* newline and the text.
C2_SnippetOverwrite ==
    (last.op = "code_execute_host" /\ ~last.all)
       => /\ Located(SnippetPath) \in DOMAIN fs
          /\ fs[Located(SnippetPath)]
               = IF Located(SnippetPath) = TranscriptFile /\ last.item.params.code # <<>>
                 THEN last.item.params.code \o <<"\n">> \o last.item.params.code
                 ELSE last.item.params.code

\* C2 witness: the written file held other text before the call.
C2_Witness ==
    /\ last.op = "code_execute_host" /\ ~last.all
    /\ Located(SnippetPath) # TranscriptFile
    /\ Content(last.pre, Located(SnippetPath)) = <<"p">>
    /\ fs[Located(SnippetPath)] = <<"a">>

--------------------------------------------------------------------------
\* C3: executeCodeFile on the host with a path naming no existing file
\* returns an envelope whose result is "File not found" and raises nothing;
\* no process is spawned, no container run, the files are as before, and
\* nothing is emitted on the input and output channels.
C3_FileNotFound ==
    (last.op = "code_execute_file_host" /\ Located(last.item.params.path) \notin DOMAIN last.pre)
       => /\ last.fault = "none"
          /\ Len(last.ret) = 1
          /\ last.ret[1].result = <<"File not found">>
          /\ last.popen = <<>> /\ last.docker = <<>>
          /\ fs = last.pre /\ last.appended = {} /\ last.data = <<>>
          /\ \A i \in 1..Len(last.emitted) : last.emitted[i].ch # "output"

\* C3 witness: such a call with a listener attached.
C3_Witness ==
    /\ last.op = "code_execute_file_host" /\ signals
    /\ Located(last.item.params.path) \notin DOMAIN last.pre
    /\ Len(last.ret) = 1 /\ last.emitted # <<>>


--------------------------------------------------------------------------
\* C4: on the host, a completed command with stdout x and no stderr gives
\* result x, one with stderr e and no stdout gives result e, and one with
\* neither gives the fixed sentinel.
C4_HostResult ==
    (IsHostCall /\ last.ext.spawn = "ok")
       => /\ (last.ext.stdout = <<120>> /\ last.ext.stderr = <<>>)
                => (Len(last.ret) = 1 /\ last.ret[1].result = <<"x">>)
          /\ (last.ext.stdout = <<>> /\ last.ext.stderr = <<101>>)
                => (Len(last.ret) = 1 /\ last.ret[1].result = <<"e">>)
          /\ (last.ext.stdout = <<>> /\ last.ext.stderr = <<>>)
                => (Len(last.ret) = 1
                    /\ last.ret[1].result = <<"No result (STDOUT/STDERR empty)">>)

\* C4 witness: all three cases are met: here the one of both streams empty.
C4_Witness ==
    /\ IsHostCall /\ last.ext.spawn = "ok"
    /\ last.ext.stdout = <<>> /\ last.ext.stderr = <<>>
    /\ Len(last.ret) = 1 /\ last.ret[1].result = NO_RESULT

\* C4 witness of the stderr-only case.
C4_WitnessStderr ==
    /\ IsHostCall /\ last.ext.spawn = "ok"
    /\ last.ext.stdout = <<>> /\ last.ext.stderr = <<101>>
    /\ Len(last.ret) = 1 /\ last.ret[1].result = <<"e">>

--------------------------------------------------------------------------
\* C5: prepare_path returns an absolute path verbatim in both modes, a
\* relative path p as <user_data_dir>/p with the sandbox flag off and as p
\* itself with the flag on.
C5_PreparePath ==
    (last.op = "prepare_path")
       => LET p == last.item.params.path
              r == last.ret[1]
          IN /\ p[1] = "/" => r = p
             /\ (p[1] # "/" /\ ~sandbox) => r = <<"/", "userdata", "/">> \o p
             /\ (p[1] # "/" /\ sandbox) => r = p

\* C5 witness: a relative path resolved with the sandbox flag on.
C5_Witness ==
    /\ last.op = "prepare_path" /\ sandbox
    /\ last.item.params.path = <<"a.py">> /\ last.ret = <<<<"a.py">>>>

\* C5 witness: a relative path resolved with the sandbox flag off.
C5_WitnessHost ==
    /\ last.op = "prepare_path" /\ ~sandbox
    /\ last.item.params.path = <<"a.py">>
    /\ last.ret = <<<<"/", "userdata", "/", "a.py">>>>

--------------------------------------------------------------------------
\* The path a code-execution call resolves for the file it runs: the path
\* of the request (or the fixed name), made absolute on the host only.
RunPath ==
    LET p == IF IsExecuteCodeFile THEN last.item.params.path
             ELSE IF last.all THEN <<"_interpreter.input.py">>
             ELSE SnippetPath
    IN IF p[1] = "/" \/ sandbox THEN p ELSE <<"/", "userdata", "/">> \o p

\* the template with its slot replaced
Filled(tpl, path) ==
    IF tpl = <<"python", " ", "{filename}">> THEN <<"python", " ">> \o path
    ELSE <<"python3", " ", "-u", " ">> \o path \o <<" ", "-q">>

\* C6: in every code-execution call the command run is the configured
\* template with its {filename} slot replaced by the resolved path of the
\* file to run, nothing else changed.
C6_Command ==
    ((IsExecuteCode \/ IsExecuteCodeFile) /\ (last.popen # <<>> \/ last.docker # <<>>))
       => /\ IsHostCall => last.popen = <<Filled(python_cmd_tpl, RunPath)>>
          /\ ~IsHostCall => (Len(last.docker) = 1
                             /\ last.docker[1].cmd = Filled(python_cmd_tpl, RunPath))

\* C6 witness: the shape of the specification's example, the template
\* python {filename} and an absolute path.
C6_Witness ==
    /\ IsExecuteCodeFile /\ last.docker # <<>>
    /\ last.docker[1].cmd = <<"python", " ", "/", "userdata", "/", "a.py">>

\* C6 witness with the slot inside the template, on the host.
C6_WitnessHost ==
    /\ last.op = "code_execute_host" /\ ~last.all
    /\ last.popen = <<<<"python3", " ", "-u", " ", "/", "userdata", "/",
                        "_interpreter.current.py", " ", "-q">>>>


--------------------------------------------------------------------------
\* C7 as stated: every result envelope a runner operation returns echoes
\* the request it was given and carries a context field equal to its result
\* field.
C7_Original ==
    (IsCall /\ last.ret # <<>>)
       => /\ last.ret[1].request = last.request
          /\ "context" \in DOMAIN last.ret[1]
          /\ last.ret[1].context = last.ret[1].result

--------------------------------------------------------------------------
\* C8: executeShellCommand, on the host and in the container, runs the
\* command text unchanged, with no template applied, and writes no file: the
\* files are as before the call, and nothing is emitted as input echo.
C8_ShellVerbatim ==
    IsShell
       => /\ last.op = "sys_exec_host" => last.popen = <<last.item.params.command>>
          /\ last.op = "sys_exec_sandbox"
                => (Len(last.docker) = 1 /\ last.docker[1].cmd = last.item.params.command)
          /\ fs = last.pre /\ last.written = {} /\ last.appended = {}
          /\ Outputs("stdin") = <<>>

\* C8 witness: a completed shell command whose text holds the slot of the
\* template, with a listener attached.
C8_Witness ==
    /\ last.op = "sys_exec_host" /\ signals /\ Len(last.ret) = 1
    /\ last.item.params.command = <<"cat", " ", "{filename}">>
    /\ last.popen = <<<<"cat", " ", "{filename}">>>>
    /\ Outputs("stdout") # <<>>

--------------------------------------------------------------------------
\* C9 as stated: in every mode both fixed files are read and written under
\* the user-data directory: the snippet file executeCode writes without an
\* explicit path and the transcript file any operation appends to lie in
\* the user-data directory, in host and in container mode alike.
C9_Original ==
    (IsCall /\ Len(last.ret) = 1)
       => /\ (IsExecuteCode /\ ~last.all /\ "path" \notin DOMAIN last.item.params)
                => last.written = {<<"/", "userdata", "/", "_interpreter.current.py">>}
          /\ last.appended \subseteq {<<"/", "userdata", "/", "_interpreter.input.py">>}

--------------------------------------------------------------------------
HasBadByte(b) == \E i \in 1..Len(b) : b[i] > 127

\* C10: when the process spawn, the container run or the UTF-8 decoding
\* faults, the fault leaves the operation: no envelope is returned and
\* nothing is emitted on the error channel.  The only envelope returned
\* without a command having run is the host-mode "File not found".
C10_FaultsPropagate ==
    IsCall
       => /\ (IsHostCall /\ (last.ext.spawn = "fault"
                             \/ (last.ext.spawn = "ok"
                                 /\ (HasBadByte(last.ext.stdout) \/ HasBadByte(last.ext.stderr)))))
                => (last.ret = <<>> /\ last.fault # "none")
          /\ (~IsHostCall /\ (last.ext.run = "fault"
                              \/ (last.ext.run = "ok" /\ HasBadByte(last.ext.response))))
                => (last.ret = <<>> /\ last.fault # "none")
          /\ last.ret # <<>> => last.fault = "none"
          /\ (last.ret # <<>> /\ last.popen = <<>> /\ last.docker = <<>>)
                => (last.op = "code_execute_file_host"
                    /\ last.ret[1].result = <<"File not found">>)
          /\ \A i \in 1..Len(last.emitted) : last.emitted[i].ch # "error"

\* C10 witness: a decoding fault after the command has run, listener attached.
C10_Witness ==
    /\ IsCall /\ signals /\ last.fault = "UnicodeDecodeError" /\ last.ret = <<>>
    /\ last.emitted # <<>>

\* C10 witness: a fault of the container run.
C10_WitnessRun ==
    /\ IsCall /\ ~IsHostCall /\ last.ext.run = "fault" /\ last.fault = "DockerException"

--------------------------------------------------------------------------
\* the output notifications of the last call, in order
AllOutputs == SelectSeq(last.emitted, LAMBDA e : e.ch = "output" /\ e.type # "stdin")

\* C11 as stated: on the host, when decoding a captured stream fails or both
\* captured streams are empty, the call returns a result whose text is
\* exactly "No result (stdout/stderr empty)".
C11_Original ==
    (IsHostCall /\ last.ext.spawn = "ok"
       /\ (HasBadByte(last.ext.stdout) \/ HasBadByte(last.ext.stderr)
           \/ (last.ext.stdout = <<>> /\ last.ext.stderr = <<>>)))
       => (Len(last.ret) = 1 /\ last.ret[1].result = <<"No result (stdout/stderr empty)">>)

\* C11 amended: on the host, when both captured streams are empty the call
\* returns a result whose text is exactly "No result (STDOUT/STDERR empty)";
\* when decoding a captured non-empty stream fails, the decoding fault
\* leaves the call and no result is returned.
C11_SentinelOrFault ==
    (IsHostCall /\ last.ext.spawn = "ok")
       => /\ (last.ext.stdout = <<>> /\ last.ext.stderr = <<>>)
                => (Len(last.ret) = 1 /\ last.fault = "none"
                    /\ last.ret[1].result = <<"No result (STDOUT/STDERR empty)">>)
          /\ (HasBadByte(last.ext.stdout) \/ HasBadByte(last.ext.stderr))
                => (last.ret = <<>> /\ last.fault = "UnicodeDecodeError")

\* C11 witness: stdout decoded and forwarded, then stderr fails to decode.
C11_Witness ==
    /\ IsHostCall /\ last.ext.spawn = "ok" /\ signals
    /\ last.ext.stdout = <<120>> /\ HasBadByte(last.ext.stderr)
    /\ last.fault = "UnicodeDecodeError" /\ Len(AllOutputs) = 1

--------------------------------------------------------------------------
\* C12: on the host, a command with non-empty stdout and non-empty stderr
\* gives exactly two output notifications, the stdout text tagged "stdout"
\* and then the stderr text tagged "stderr", and the result is the stderr
\* text; an empty stream gives no output notification.  (The notifications
\* are those a listener receives: with none attached there are none.)
C12_BothStreams ==
    (IsHostCall /\ last.ext.spawn = "ok" /\ last.fault = "none")
       => /\ (last.ext.stdout = <<120>> /\ last.ext.stderr = <<101>>)
                => /\ Len(last.ret) = 1 /\ last.ret[1].result = <<"e">>
                   /\ signals =>
                        AllOutputs = << [ch |-> "output", data |-> <<"x">>, type |-> "stdout"],
                                        [ch |-> "output", data |-> <<"e">>, type |-> "stderr"] >>
          /\ last.ext.stdout = <<>> => Outputs("stdout") = <<>>
          /\ last.ext.stderr = <<>> => Outputs("stderr") = <<>>
          /\ ~signals => AllOutputs = <<>>

\* C12 witness: both streams non-empty, listener attached.
C12_Witness ==
    /\ IsHostCall /\ signals /\ last.fault = "none"
    /\ last.ext.stdout = <<120>> /\ last.ext.stderr = <<101>>
    /\ Len(AllOutputs) = 2 /\ last.ret[1].result = <<"e">>

--------------------------------------------------------------------------
\* C13: in container mode every completed operation emits exactly one output
\* notification, tagged "stdout", also when the captured output is empty,
\* and the result is the UTF-8 decoding of the container's output, never
\* the host-mode sentinel.
C13_ContainerOutput ==
    (IsCall /\ ~IsHostCall /\ Len(last.ret) = 1)
       => LET text == [i \in 1..Len(last.ext.response) |->
                          IF last.ext.response[i] = 120 THEN "x" ELSE "e"]
          IN /\ last.ret[1].result = text
             /\ last.ret[1].result # <<"No result (STDOUT/STDERR empty)">>
             /\ signals => AllOutputs = <<[ch |-> "output", data |-> text, type |-> "stdout"]>>

\* C13 witness: a container run with empty output, listener attached.
C13_Witness ==
    /\ IsCall /\ ~IsHostCall /\ Len(last.ret) = 1 /\ signals
    /\ last.ext.response = <<>> /\ last.ret[1].result = <<>> /\ Len(AllOutputs) = 1

--------------------------------------------------------------------------
\* C14 as stated: executeCodeFile in container mode, given a path that names
\* no existing file, does not fault before the container is run; the
\* failure shows in the output of the container, in a returned result.
C14_Original ==
    (last.op = "code_execute_file_sandbox"
       /\ Located(last.item.params.path) \notin DOMAIN last.pre)
       => (last.fault # "FileNotFoundError" /\ Len(last.docker) = 1)

--------------------------------------------------------------------------
\* the files other than q are the same in f and g
SameBut(f, g, q) ==
    \A r \in (DOMAIN f \cup DOMAIN g) \ {q} :
        r \in DOMAIN f /\ r \in DOMAIN g /\ f[r] = g[r]

\* C15 as stated: executeCode with runAll true leaves the content of the
\* current-snippet file and of explicitPath unchanged, and the command it
\* runs targets the resolved transcript file path, on the host and in
\* container mode.
C15_Original ==
    (IsExecuteCode /\ last.all /\ last.fault = "none")
       => /\ Content(fs, Located(<<"_interpreter.current.py">>))
               = Content(last.pre, Located(<<"_interpreter.current.py">>))
          /\ Content(fs, Located(SnippetPath)) = Content(last.pre, Located(SnippetPath))
          /\ IsHostCall => last.popen = <<Filled(python_cmd_tpl,
                                  <<"/", "userdata", "/", "_interpreter.input.py">>)>>
          /\ ~IsHostCall => (Len(last.docker) = 1 /\ last.docker[1].cmd
                                  = Filled(python_cmd_tpl, <<"_interpreter.input.py">>))

\* C15 amended: executeCode with runAll true opens no file for writing and
\* changes no file but the transcript, which receives the append; so the
\* current-snippet file and explicitPath keep their content unless
\* explicitPath names the transcript file itself.  The command it runs
\* targets the resolved transcript path, on the host and in container mode.
C15_RunAllNoWrite ==
    (IsExecuteCode /\ last.all)
       => /\ last.written = {}
          /\ SameBut(fs, last.pre, TranscriptFile)
          /\ Content(fs, TranscriptFile)
               = IF last.item.params.code = <<>> THEN Content(last.pre, TranscriptFile)
                 ELSE JoinNL(Content(last.pre, TranscriptFile), last.item.params.code)
          /\ IsHostCall => last.popen = <<Filled(python_cmd_tpl,
                                  <<"/", "userdata", "/", "_interpreter.input.py">>)>>
          /\ ~IsHostCall => (Len(last.docker) = 1 /\ last.docker[1].cmd
                                  = Filled(python_cmd_tpl, <<"_interpreter.input.py">>))

\* C15 witness: runAll true with an explicit path a.py that holds text: the
\* file keeps it and the command runs the transcript.
C15_Witness ==
    /\ last.op = "code_execute_host" /\ last.all /\ Len(last.ret) = 1
    /\ last.item.params.code = <<"a">>
    /\ "path" \in DOMAIN last.item.params /\ last.item.params.path = <<"a.py">>
    /\ Content(last.pre, Located(<<"a.py">>)) = <<"p">>
    /\ Content(fs, Located(<<"a.py">>)) = <<"p">>
    /\ last.popen = <<<<"python", " ", "/", "userdata", "/", "_interpreter.input.py">>>>

\* C15 witness in container mode.
C15_WitnessContainer ==
    /\ last.op = "code_execute_sandbox" /\ last.all /\ Len(last.ret) = 1
    /\ last.written = {} /\ last.item.params.code = <<"a">>
    /\ last.docker[1].cmd = <<"python", " ", "_interpreter.input.py">>

--------------------------------------------------------------------------
\* the text a code-execution call hands to the transcript
SourceText == IF IsExecuteCode THEN last.item.params.code
              ELSE Content(last.pre, Located(last.item.params.path))

\* C16 as stated: after executeCode or executeCodeFile with empty source
\* text the transcript content is what it was before the call, for every
\* prior content.
C16_Original ==
    ((IsExecuteCode \/ IsExecuteCodeFile) /\ last.data = <<<<>>>> /\ last.fault = "none")
       => Content(fs, TranscriptFile) = Content(last.pre, TranscriptFile)

\* C16 amended: after executeCode or executeCodeFile with empty source text
\* the transcript content is what it was before the call (nothing is
\* appended, no separator either), unless the call is an executeCode with
\* runAll false whose explicitPath names the transcript file: that call
\* overwrote the transcript with the empty text.
C16_EmptySkipped ==
    ((IsExecuteCode \/ IsExecuteCodeFile) /\ last.data = <<<<>>>>)
       => Content(fs, TranscriptFile)
            = IF IsExecuteCode /\ ~last.all /\ Located(SnippetPath) = TranscriptFile
              THEN <<>>
              ELSE Content(last.pre, TranscriptFile)

\* C16 witness: executeCodeFile of an empty file on a transcript holding text.
C16_Witness ==
    /\ IsExecuteCodeFile /\ last.data = <<<<>>>> /\ Len(last.ret) = 1
    /\ Content(last.pre, TranscriptFile) = <<"p">>
    /\ Content(fs, TranscriptFile) = <<"p">>

\* C16 witness: executeCode of the empty text on a transcript holding text.
C16_WitnessCode ==
    /\ IsExecuteCode /\ last.data = <<<<>>>> /\ Len(last.ret) = 1
    /\ Content(last.pre, TranscriptFile) = <<"p">>
    /\ Content(fs, TranscriptFile) = <<"p">>

--------------------------------------------------------------------------
\* C17: every call performs at most one external execution, one host
\* subprocess spawn or one container run, never one of each and never a
\* second attempt after a fault; a call that got past its file checks
\* performs exactly one; the host "File not found" case performs none.
C17_OneExecution ==
    IsCall
       => /\ Len(last.popen) + Len(last.docker) <= 1
          /\ IsHostCall => last.docker = <<>>
          /\ ~IsHostCall => last.popen = <<>>
          /\ (IsHostCall /\ last.ext # NoExt) => Len(last.popen) = 1
          /\ (~IsHostCall /\ last.ext # NoExt) => Len(last.docker) = 1
          /\ (last.op = "code_execute_file_host"
                /\ Located(last.item.params.path) \notin DOMAIN last.pre)
                => (last.popen = <<>> /\ last.docker = <<>>)

\* C17 witness: a spawn that failed, attempted once.
C17_Witness ==
    /\ IsHostCall /\ last.fault = "OSError" /\ Len(last.popen) = 1 /\ last.docker = <<>>

\* C17 witness: the file-not-found case, nothing executed.
C17_WitnessNotFound ==
    /\ last.op = "code_execute_file_host" /\ Len(last.ret) = 1
    /\ last.ret[1].result = <<"File not found">>
    /\ last.popen = <<>> /\ last.docker = <<>>

--------------------------------------------------------------------------
IsSuffix(t, c) == Len(t) <= Len(c) /\ SubSeq(c, Len(c) - Len(t) + 1, Len(c)) = t

ExecutionFaults == {"OSError", "DockerException", "UnicodeDecodeError"}

\* C19: in executeCode and executeCodeFile the snippet write, the transcript
\* append and the input echo precede the external execution and are not
\* undone: when the spawn, the container run or the decoding faults, no
\* result is returned, yet the written file holds the text, the transcript
\* ends with the submitted text and the input echo has been emitted (to the
\* listener, where one is attached).
C19_NoRollback ==
    ((IsExecuteCode \/ IsExecuteCodeFile) /\ last.fault \in ExecutionFaults)
       => /\ last.ret = <<>>
          /\ last.data = <<SourceText>>
          /\ last.appended = {TranscriptFile}
          /\ IsSuffix(SourceText, Content(fs, TranscriptFile))
          /\ (SourceText # <<>>
                /\ ~(IsExecuteCode /\ ~last.all /\ Located(SnippetPath) = TranscriptFile))
                => Content(fs, TranscriptFile)
                     = JoinNL(Content(last.pre, TranscriptFile), SourceText)
          /\ (IsExecuteCode /\ ~last.all)
                => /\ Located(SnippetPath) \in DOMAIN fs
                   /\ IsSuffix(SourceText, fs[Located(SnippetPath)])
          /\ signals => Outputs("stdin") = <<[ch |-> "output", data |-> SourceText, type |-> "stdin"]>>
          /\ Len(last.popen) + Len(last.docker) = 1

\* C19 witness: a failed spawn after a non-empty text was appended.
C19_Witness ==
    /\ last.op = "code_execute_host" /\ last.fault = "OSError" /\ signals
    /\ last.item.params.code = <<"a">>
    /\ Content(last.pre, TranscriptFile) = <<"p">>
    /\ Content(fs, TranscriptFile) = <<"p", "\n", "a">>
    /\ Len(Outputs("stdin")) = 1

\* C19 witness: a decoding fault in container mode after executeCodeFile.
C19_WitnessDecode ==
    /\ last.op = "code_execute_file_sandbox" /\ last.fault = "UnicodeDecodeError"
    /\ SourceText = <<"p">> /\ IsSuffix(<<"p">>, Content(fs, TranscriptFile))

--------------------------------------------------------------------------
\* The file the command of an executeCode call with runAll true reads: on
\* the host the absolute transcript path; in the container the relative
\* name _interpreter.input.py, taken from the working directory /data,
\* which is the host directory the volume binds there.
RanFile ==
    IF IsHostCall THEN <<"/", "userdata", "/", "_interpreter.input.py">>
    ELSE IF last.docker[1].working_dir = last.docker[1].volumes.bind
    THEN last.docker[1].volumes.host \o <<"/", "_interpreter.input.py">>
    ELSE last.docker[1].working_dir \o <<"/", "_interpreter.input.py">>

\* C20 as stated: in executeCode with runAll true the append precedes the
\* execution, so the transcript file the command runs holds the text of the
\* current call as its last entry, after every earlier submitted text of
\* the session in submission order.  (Stated of sessions in which no
\* snippet was written onto the transcript.)
C20_Original ==
    (IsExecuteCode /\ last.all /\ ~clobbered /\ last.item.params.code # <<>>
       /\ Len(last.popen) + Len(last.docker) = 1)
       => /\ IsSuffix(last.item.params.code, Content(fs, RanFile))
          /\ Content(fs, RanFile) = JoinAll(submitted)

--------------------------------------------------------------------------
\* what a call does apart from what it emits
Silent(o) == [fs |-> o.fs, fault |-> o.fault, ret |-> o.ret, popen |-> o.popen,
              docker |-> o.docker, written |-> o.written, appended |-> o.appended,
              data |-> o.data]

\* the outcomes of a call with a listener (o) and of the same call in the
\* same state without one (q) differ in what is emitted only
ListenerOnly(o, q) == Silent(o) = Silent(q) /\ q.emitted = <<>>

\* the step in which the listener is taken away, nothing else changing
Detach == signals /\ ~signals' /\ UNCHANGED <<fs, cwd, sandbox, python_cmd_tpl>>

\* C18: a call made with no listener attached emits nothing and raises no
\* fault other than those of the execution itself; and for every operation
\* and input, the call made without a listener faults or returns exactly as
\* the same call made in the same state with a listener, and leaves the
\* same files.  The two calls are compared across the step that takes the
\* listener away: the outcome of each call before it and after it.
C18_ListenerDropped ==
    [][/\ (IsCall /\ ~signals)'
            => (last.emitted = <<>>
                /\ last.fault \in {"none", "FileNotFoundError"} \cup ExecutionFaults)'
       /\ (Detach /\ onHost) =>
            /\ \A item \in CodeItems, all \in BOOLEAN, proc \in Procs :
                 ListenerOnly(code_execute_host_outcome(item, Request("code_execute"), all, proc),
                              code_execute_host_outcome(item, Request("code_execute"), all, proc)')
            /\ \A item \in FileItems, proc \in Procs :
                 ListenerOnly(code_execute_file_host_outcome(item, Request("code_execute_file"), proc),
                              code_execute_file_host_outcome(item, Request("code_execute_file"), proc)')
            /\ \A item \in CommandItems, proc \in Procs :
                 ListenerOnly(sys_exec_host_outcome(item, Request("sys_exec"), proc),
                              sys_exec_host_outcome(item, Request("sys_exec"), proc)')
       /\ (Detach /\ ~onHost) =>
            /\ \A item \in CodeItems, all \in BOOLEAN, cont \in Conts :
                 ListenerOnly(code_execute_sandbox_outcome(item, Request("code_execute"), all, cont),
                              code_execute_sandbox_outcome(item, Request("code_execute"), all, cont)')
            /\ \A item \in FileItems, cont \in Conts :
                 ListenerOnly(code_execute_file_sandbox_outcome(item, Request("code_execute_file"), cont),
                              code_execute_file_sandbox_outcome(item, Request("code_execute_file"), cont)')
            /\ \A item \in CommandItems, cont \in Conts :
                 ListenerOnly(sys_exec_sandbox_outcome(item, Request("sys_exec"), cont),
                              sys_exec_sandbox_outcome(item, Request("sys_exec"), cont)')
      ]_vars

\* C18 witness: a call made without a listener that wrote a file, ran its
\* command and returned the captured text, nothing emitted.
C18_Witness ==
    /\ IsExecuteCode /\ ~signals /\ ~last.all /\ Len(last.ret) = 1
    /\ last.item.params.code = <<"a">>
    /\ last.ret[1].result # <<>>
    /\ last.emitted = <<>> /\ fs # last.pre

--------------------------------------------------------------------------
\* The chat controller: Common.lock_input, Common.unlock_input, Common.stop.
\* The methods run on the GUI thread, one at a time, to completion.

\* pygpt_net.utils.trans: the text the locale holds for a key
trans(key) == <<"trans", key>>

\* Event(name, data)
Event(name, data) == [name |-> name, data |-> data]

\* the state a call of a Common method finds
Found(op) ==
    [op |-> op, locked |-> locked, generating |-> generating,
     send_btn_enabled |-> send_btn_enabled, stop_btn_visible |-> stop_btn_visible]

\* lock_input that leaves the stop button as it is
lock_input_no_stop_btn ==
    /\ locked' = TRUE
    /\ send_btn_enabled' = FALSE
    /\ chat_last' = Found("lock_input")
    /\ UNCHANGED <<stop_btn_visible, generating, force_stop, threads_force_stop,
                   dispatched, gpt_stopped, status>>
    /\ UNCHANGED runner_vars

lock_input ==
    /\ locked' = TRUE
    /\ send_btn_enabled' = FALSE
    /\ stop_btn_visible' = TRUE
    /\ chat_last' = Found("lock_input")
    /\ UNCHANGED <<generating, force_stop, threads_force_stop, dispatched, gpt_stopped, status>>
    /\ UNCHANGED runner_vars

unlock_input ==
    /\ locked' = FALSE
    /\ send_btn_enabled' = TRUE
    /\ stop_btn_visible' = FALSE
    /\ chat_last' = Found("unlock_input")
    /\ UNCHANGED <<generating, force_stop, threads_force_stop, dispatched, gpt_stopped, status>>
    /\ UNCHANGED runner_vars

\* stop: the statements of unlock_input are part of it
stop ==
    /\ threads_force_stop' = TRUE
    /\ dispatched' = <<Event("audio.input.toggle", [value |-> FALSE])>>
    /\ force_stop' = TRUE
    /\ gpt_stopped' = TRUE
    /\ locked' = FALSE
    /\ send_btn_enabled' = TRUE
    /\ stop_btn_visible' = FALSE
    /\ generating' = FALSE
    /\ status' = trans("status.stopped")
    /\ chat_last' = Found("stop")
    /\ UNCHANGED runner_vars

\* The texts the status bar may show when the controller is set up.
StatusTexts == {<<>>, trans("status.started")}

\* The window when the chat controller is handed it: the fields of the
\* input controller and the two buttons hold whatever the rest of the
\* application left in them.  The runner plays no part.
InitChat ==
    /\ locked \in BOOLEAN /\ generating \in BOOLEAN
    /\ force_stop \in BOOLEAN /\ threads_force_stop \in BOOLEAN
    /\ send_btn_enabled \in BOOLEAN /\ stop_btn_visible \in BOOLEAN
    /\ dispatched = <<>> /\ gpt_stopped = FALSE
    /\ status \in StatusTexts
    /\ chat_last = NoChatCall
    /\ fs = <<>> /\ cwd = other_dir /\ sandbox = FALSE
    /\ python_cmd_tpl = <<"python", " ", SLOT>> /\ signals = FALSE
    /\ last = NoCall /\ submitted = <<>> /\ clobbered = FALSE /\ calls = 0

NextChat ==
    \/ lock_input
    \/ unlock_input
    \/ stop

SpecChat == InitChat /\ [][NextChat]_vars

\* C21: after any sequence of lock_input, unlock_input and stop the three
\* lock indicators agree: input.locked is true exactly when the send button
\* is disabled and exactly when the stop button is visible; and stop always
\* leaves them unlocked with input.generating false.
C21_LockAgree ==
    /\ chat_last.op # "none"
          => /\ locked <=> ~send_btn_enabled
             /\ locked <=> stop_btn_visible
    /\ chat_last.op = "lock_input" => locked
    /\ chat_last.op = "unlock_input" => ~locked
    /\ chat_last.op = "stop"
          => (~locked /\ send_btn_enabled /\ ~stop_btn_visible /\ ~generating)

\* C21 witness: stop called on a locked, generating input.
C21_Witness ==
    /\ chat_last.op = "stop"
    /\ chat_last.locked /\ chat_last.generating
    /\ ~chat_last.send_btn_enabled /\ chat_last.stop_btn_visible
    /\ ~locked /\ send_btn_enabled /\ ~stop_btn_visible /\ ~generating

\* C21 witness: lock_input called after stop.
C21_WitnessLock ==
    /\ chat_last.op = "lock_input" /\ gpt_stopped
    /\ locked /\ ~send_btn_enabled /\ stop_btn_visible

==========================================================================
